---- MODULE Spec2Model ----
(***************************************************************************)
(* scotty: the index engine of src/src/index.rs.                           *)
(*                                                                         *)
(* A path or a search target is a sequence of characters, each character a *)
(* one-element string; Ord gives the byte the fst orders it by.  The store *)
(* has two trees: `paths` (path string -> timestamp) and `main` (the       *)
(* serialized fst::Set under INDEX_KEY, here the ascending sequence of its *)
(* keys, or None when the key was never written).                          *)
(***************************************************************************)
EXTENDS Naturals, Integers, Sequences, FiniteSets, TLC

VARIABLES
    dirs,    \* the paths that are directories on disk right now
    now,     \* what SystemTime::now() returns
    scorer,  \* the fuzzy-match library's score of each indexed string
    paths,   \* the `paths` tree: a function from path strings to timestamps
    main,    \* the `main` tree's value under INDEX_KEY: None or Some(keys)
    ret,     \* the last call of the Index API: its arguments and its result
    pre      \* the two trees as they were when that call started

vars == <<dirs, now, scorer, paths, main, ret, pre>>

(***************************************************************************)
(* Bounds.                                                                 *)
(***************************************************************************)
MaxTime == 1

\* the longest shell name given to Shell::try_from
MaxShellLen == 4

(***************************************************************************)
(* Option and Result.                                                      *)
(***************************************************************************)
None == <<>>
Some(x) == <<x>>
Unwrap(o) == o[1]

Ok(v) == [tag |-> "Ok", val |-> v]
Err(e) == [tag |-> "Err", val |-> e]
IsOk(r) == r.tag = "Ok"
IsErr(r) == r.tag = "Err"

(***************************************************************************)
(* Characters and strings.                                                 *)
(***************************************************************************)
Ord(c) ==
    CASE c = "(" -> 40
      [] c = "." -> 46
      [] c = "/" -> 47
      [] c = "A" -> 65
      [] c = "B" -> 66
      [] c = "a" -> 97
      [] c = "b" -> 98
      [] c = "f" -> 102
      [] c = "uFFFD" -> 239
      [] c = "xFF" -> 255

\* ASCII case folding, as the case-insensitive regex applies it
ToLower(c) ==
    CASE c = "A" -> "a"
      [] c = "B" -> "b"
      [] c = "H" -> "h"
      [] c = "S" -> "s"
      [] c = "Z" -> "z"
      [] OTHER -> c

\* a byte that is not valid UTF-8
IsInvalidByte(c) == c = "xFF"

\* Path::to_string_lossy: every invalid byte becomes U+FFFD
to_string_lossy(p) ==
    [i \in 1..Len(p) |-> IF IsInvalidByte(p[i]) THEN "uFFFD" ELSE p[i]]

\* byte-wise lexicographic order of two strings, the order of sled and of the fst
RECURSIVE BytesLess(_, _)
BytesLess(a, b) ==
    IF b = <<>> THEN FALSE
    ELSE IF a = <<>> THEN TRUE
    ELSE IF Ord(Head(a)) # Ord(Head(b)) THEN Ord(Head(a)) < Ord(Head(b))
    ELSE BytesLess(Tail(a), Tail(b))

SeqToSet(s) == {s[i] : i \in 1..Len(s)}

IsAscending(s) == \A i \in 1..(Len(s) - 1) : BytesLess(s[i], s[i + 1])

(***************************************************************************)
(* The inputs.                                                             *)
(***************************************************************************)
PathAb == <<"/", "a", "b">>
PathASlashB == <<"/", "a", "/", "b">>
PathUpperAB == <<"/", "A", "B">>
PathRelative == <<"a", "b">>
PathFile == <<"/", "f">>
PathMissing == <<"/", "xFF">>
PathParen == <<"/", "(">>
PathParenSub == <<"/", "(", "/", "a">>
PathParenViaParent == <<"/", "(", "/", "a", "/", ".", ".">>
PathADotB == <<"/", "a", ".", "b">>
PathASlashBSlash == <<"/", "a", "/", "b", "/">>

\* the directories that exist when the program starts
InitialDirs == {PathAb, PathASlashB, PathUpperAB, PathRelative}

\* what a caller passes to add and delete
InputPaths ==
    InitialDirs \cup {PathFile, PathMissing}
        \cup {PathParen, PathParenSub, PathParenViaParent}

\* another disk: a directory with a parenthesis in its name, a directory in
\* it, and a second way to write the first
NamesDirs == {PathParen, PathParenSub, PathParenViaParent}

\* what a caller passes as the search target
Targets == {<<>>, <<"a", "b">>, <<"A", "B">>, <<"b", "a">>, <<".">>, <<"(">>}

\* what a caller passes as --exclude
Excludes == {None, Some(PathAb), Some(PathUpperAB)}

\* the scores the fuzzy matcher gives: get_best_score reads only their order
Scores == {0, 1}

\* variant: Path::exists in place of Path::is_dir, so a regular file passes
is_dir_or_file(p) == p \in dirs \/ p = PathFile

\* Path::is_dir
is_dir(p) == p \in dirs

\* variant: any non-empty path counts as absolute
is_absolute_nonempty(p) == p # <<>>

\* Path::is_absolute
is_absolute(p) == p # <<>> /\ p[1] = "/"

(***************************************************************************)
(* The sled trees.                                                         *)
(***************************************************************************)
EmptyTree == [k \in {} |-> 0]

\* Tree::get
tree_get(tree, key) == IF key \in DOMAIN tree THEN Some(tree[key]) ELSE None

\* variant: insert-if-absent, a key already present keeps its value
tree_insert_if_absent(tree, key, value) ==
    [tree |-> [k \in DOMAIN tree \cup {key} |->
                  IF k \in DOMAIN tree THEN tree[k] ELSE value],
     old |-> tree_get(tree, key)]

\* Tree::insert: the new tree and the value the key had before
tree_insert(tree, key, value) ==
    [tree |-> [k \in DOMAIN tree \cup {key} |-> IF k = key THEN value ELSE tree[k]],
     old |-> tree_get(tree, key)]

\* Tree::remove: the new tree and the value the key had before
tree_remove(tree, key) ==
    [tree |-> [k \in DOMAIN tree \ {key} |-> tree[k]],
     old |-> tree_get(tree, key)]

\* bincode::serialize of a SystemTime: its distance from the epoch
serialize(time) == [secs_since_epoch |-> time]

\* bincode::deserialize::<SystemTime>
deserialize(bytes) == bytes.secs_since_epoch

(***************************************************************************)
(* fst::Set: an immutable set, held as the ascending sequence of its keys. *)
(***************************************************************************)
\* SetBuilder: keys must arrive in strictly ascending order
set_build(stream) ==
    IF IsAscending(stream) THEN Ok(stream)
    ELSE Err([kind |-> "Fst", path |-> <<>>])

\* Set::from_iter
set_from_iter(keys) == set_build(keys)

\* OpBuilder::union of two streams: ordered merge, equal keys emitted once
RECURSIVE union_stream(_, _)
union_stream(a, b) ==
    IF a = <<>> THEN b
    ELSE IF b = <<>> THEN a
    ELSE IF Head(a) = Head(b) THEN <<Head(a)>> \o union_stream(Tail(a), Tail(b))
    ELSE IF BytesLess(Head(a), Head(b)) THEN <<Head(a)>> \o union_stream(Tail(a), b)
    ELSE <<Head(b)>> \o union_stream(a, Tail(b))

\* OpBuilder::difference: the keys of the first stream that the second lacks
RECURSIVE difference_stream(_, _)
difference_stream(a, b) ==
    IF a = <<>> THEN <<>>
    ELSE IF b = <<>> THEN a
    ELSE IF Head(a) = Head(b) THEN difference_stream(Tail(a), Tail(b))
    ELSE IF BytesLess(Head(a), Head(b)) THEN <<Head(a)>> \o difference_stream(Tail(a), b)
    ELSE difference_stream(a, Tail(b))

\* variant: the second stream is chained after the first instead of merged
merge_fst_sets_chained(paths_set, delta_set) == set_build(paths_set \o delta_set)

\* variant: the merge streams the delta alone and drops the stored set
merge_fst_sets_delta_only(paths_set, delta_set) == set_build(delta_set)

merge_fst_sets(paths_set, delta_set) == set_build(union_stream(paths_set, delta_set))

\* variant: the keys of the delta that the stored set lacks are kept as well
remove_fst_set_symmetric(paths_set, delta_set) ==
    set_build(union_stream(difference_stream(paths_set, delta_set),
                           difference_stream(delta_set, paths_set)))

\* variant: the union is taken where the difference is meant
remove_fst_set_as_union(paths_set, delta_set) ==
    set_build(union_stream(paths_set, delta_set))

\* variant: the difference is never taken, the stored set is written back
remove_fst_set_keeps_all(paths_set, delta_set) == set_build(paths_set)

remove_fst_set(paths_set, delta_set) == set_build(difference_stream(paths_set, delta_set))

\* the Set stored under INDEX_KEY, or Set::default() when there is none
load_index(main_value) == IF main_value = None THEN <<>> ELSE Unwrap(main_value)

\* the call op(&paths_fst, &delta_fst), op being the function passed by name
call_op(op, paths_set, delta_set) ==
    IF op = "merge_fst_sets" THEN merge_fst_sets(paths_set, delta_set)
    ELSE remove_fst_set(paths_set, delta_set)

\* Index::update_paths_index on a `main` tree value: the result and the new value
update_paths_index(main_value, path_bytes, op) ==
    LET delta_fst == set_from_iter(<<path_bytes>>)
        paths_fst == load_index(main_value)
        new_fst == call_op(op, paths_fst, delta_fst.val)
    IN  IF IsErr(delta_fst) THEN [res |-> delta_fst, main |-> main_value]
        ELSE IF IsErr(new_fst) THEN [res |-> new_fst, main |-> main_value]
        ELSE [res |-> Ok(<<>>), main |-> Some(new_fst.val)]

(***************************************************************************)
(* Index::add and Index::delete, as functions of the two trees.            *)
(***************************************************************************)
\* Path::components: the root, then the names between the separators
RECURSIVE split_names(_, _)
split_names(p, name) ==
    IF p = <<>> THEN IF name = <<>> THEN <<>> ELSE <<name>>
    ELSE IF Head(p) = "/"
    THEN (IF name = <<>> THEN <<>> ELSE <<name>>) \o split_names(Tail(p), <<>>)
    ELSE split_names(Tail(p), Append(name, Head(p)))

\* the names of an absolute path with every "name/.." pair taken out, joined
RECURSIVE resolve_names(_, _)
resolve_names(names, acc) ==
    IF names = <<>> THEN acc
    ELSE IF Head(names) = <<".", ".">>
    THEN resolve_names(Tail(names), SubSeq(acc, 1, Len(acc) - 1))
    ELSE resolve_names(Tail(names), Append(acc, Head(names)))

RECURSIVE join_names(_)
join_names(names) ==
    IF names = <<>> THEN <<>>
    ELSE <<"/">> \o Head(names) \o join_names(Tail(names))

canonicalize(p) ==
    LET names == resolve_names(split_names(p, <<>>), <<>>)
    IN  IF ~is_absolute(p) THEN p
        ELSE IF names = <<>> THEN <<"/">>
        ELSE join_names(names)

\* variant: the key is the canonical form of the path
add_canonical(path_buf) ==
    LET path_string == to_string_lossy(canonicalize(path_buf))
        same == [paths |-> paths, main |-> main, rebuilt |-> FALSE]
    IN  IF ~is_dir(path_buf)
        THEN [res |-> Err([kind |-> "PathDoesNotExist", path |-> path_string])] @@ same
        ELSE IF ~is_absolute(path_buf)
        THEN [res |-> Err([kind |-> "RelativePath", path |-> path_string])] @@ same
        ELSE LET ins == tree_insert(paths, path_string, serialize(now))
             IN  IF ins.old = None
                 THEN LET upd == update_paths_index(main, path_string, "merge_fst_sets")
                      IN  [res |-> upd.res, paths |-> ins.tree, main |-> upd.main,
                           rebuilt |-> TRUE]
                 ELSE [res |-> Ok(<<>>), paths |-> ins.tree, main |-> main,
                       rebuilt |-> FALSE]

\* variant: the path is tested for being absolute before it is tested for
\* being a directory
add_absolute_first(path_buf) ==
    LET path_string == to_string_lossy(path_buf)
        same == [paths |-> paths, main |-> main, rebuilt |-> FALSE]
    IN  IF ~is_absolute(path_buf)
        THEN [res |-> Err([kind |-> "RelativePath", path |-> path_string])] @@ same
        ELSE IF ~is_dir(path_buf)
        THEN [res |-> Err([kind |-> "PathDoesNotExist", path |-> path_string])] @@ same
        ELSE LET ins == tree_insert(paths, path_string, serialize(now))
             IN  IF ins.old = None
                 THEN LET upd == update_paths_index(main, path_string, "merge_fst_sets")
                      IN  [res |-> upd.res, paths |-> ins.tree, main |-> upd.main,
                           rebuilt |-> TRUE]
                 ELSE [res |-> Ok(<<>>), paths |-> ins.tree, main |-> main,
                       rebuilt |-> FALSE]

add(path_buf) ==
    LET path_string == to_string_lossy(path_buf)
        same == [paths |-> paths, main |-> main, rebuilt |-> FALSE]
    IN  IF ~is_dir(path_buf)
        THEN [res |-> Err([kind |-> "PathDoesNotExist", path |-> path_string])] @@ same
        ELSE IF ~is_absolute(path_buf)
        THEN [res |-> Err([kind |-> "RelativePath", path |-> path_string])] @@ same
        ELSE LET ins == tree_insert(paths, path_string, serialize(now))
             IN  IF ins.old = None
                 THEN LET upd == update_paths_index(main, path_string, "merge_fst_sets")
                      IN  [res |-> upd.res, paths |-> ins.tree, main |-> upd.main,
                           rebuilt |-> TRUE]
                 ELSE [res |-> Ok(<<>>), paths |-> ins.tree, main |-> main,
                       rebuilt |-> FALSE]

\* variant: the key is taken out of the Ledger and the Index is left alone
delete_ledger_only(path_buf) ==
    LET path_string == to_string_lossy(path_buf)
        rem == tree_remove(paths, path_string)
    IN  [res |-> Ok(<<>>), paths |-> rem.tree, main |-> main, rebuilt |-> FALSE]

\* variant: a path that is not in the Ledger is reported as an error
delete_strict(path_buf) ==
    LET path_string == to_string_lossy(path_buf)
        rem == tree_remove(paths, path_string)
    IN  IF rem.old = None
        THEN [res |-> Err([kind |-> "NoResults", path |-> path_string]),
              paths |-> rem.tree, main |-> main, rebuilt |-> FALSE]
        ELSE LET upd == update_paths_index(main, path_string, "remove_fst_set")
             IN  [res |-> upd.res, paths |-> rem.tree, main |-> upd.main,
                  rebuilt |-> TRUE]

delete(path_buf) ==
    LET path_string == to_string_lossy(path_buf)
        rem == tree_remove(paths, path_string)
    IN  IF rem.old = None
        THEN [res |-> Ok(<<>>), paths |-> rem.tree, main |-> main, rebuilt |-> FALSE]
        ELSE LET upd == update_paths_index(main, path_string, "remove_fst_set")
             IN  [res |-> upd.res, paths |-> rem.tree, main |-> upd.main,
                  rebuilt |-> TRUE]

(***************************************************************************)
(* The same calls when the store fails: the calls as sequences of store    *)
(* operations, of which the fail_at-th returns an error (0: none does).    *)
(* ops lists the store operations the call attempted, fault the failure.   *)
(***************************************************************************)
\* a sled::Error, or the io::Error of the file system
StoreError(kind) == [kind |-> kind, path |-> <<>>]

Fault(op, kind) == Some([op |-> op, error |-> StoreError(kind)])

\* variant: the result of the write of the rebuilt set is dropped
update_paths_index_steps_unchecked(main_value, path_bytes, op, fail_at) ==
    IF fail_at = 1
    THEN [res |-> Err(StoreError("Io")), main |-> main_value,
          ops |-> <<"main.get">>, fault |-> Fault("main.get", "Io")]
    ELSE LET upd == update_paths_index(main_value, path_bytes, op)
         IN  IF IsErr(upd.res)
             THEN [res |-> upd.res, main |-> main_value,
                   ops |-> <<"main.get">>, fault |-> None]
             ELSE IF fail_at = 2
             THEN [res |-> Ok(<<>>), main |-> main_value,
                   ops |-> <<"main.get", "main.insert">>,
                   fault |-> Fault("main.insert", "Io")]
             ELSE [res |-> upd.res, main |-> upd.main,
                   ops |-> <<"main.get", "main.insert">>, fault |-> None]

\* Index::update_paths_index: main.get is operation 1, main.insert operation 2
update_paths_index_steps(main_value, path_bytes, op, fail_at) ==
    IF fail_at = 1
    THEN [res |-> Err(StoreError("Io")), main |-> main_value,
          ops |-> <<"main.get">>, fault |-> Fault("main.get", "Io")]
    ELSE LET upd == update_paths_index(main_value, path_bytes, op)
         IN  IF IsErr(upd.res)
             THEN [res |-> upd.res, main |-> main_value,
                   ops |-> <<"main.get">>, fault |-> None]
             ELSE IF fail_at = 2
             THEN [res |-> Err(StoreError("Io")), main |-> main_value,
                   ops |-> <<"main.get", "main.insert">>,
                   fault |-> Fault("main.insert", "Io")]
             ELSE [res |-> upd.res, main |-> upd.main,
                   ops |-> <<"main.get", "main.insert">>, fault |-> None]

\* variant: a failed rebuild takes the new key out of the Ledger again
add_steps_rolled_back(path_buf, fail_at) ==
    LET path_string == to_string_lossy(path_buf)
        same == [paths |-> paths, main |-> main, rebuilt |-> FALSE]
        unused == [ops |-> <<>>, fault |-> None]
    IN  IF ~is_dir(path_buf)
        THEN [res |-> Err([kind |-> "PathDoesNotExist", path |-> path_string])]
                 @@ same @@ unused
        ELSE IF ~is_absolute(path_buf)
        THEN [res |-> Err([kind |-> "RelativePath", path |-> path_string])]
                 @@ same @@ unused
        ELSE IF fail_at = 1
        THEN [res |-> Err(StoreError("Io")), ops |-> <<"paths.insert">>,
              fault |-> Fault("paths.insert", "Io")] @@ same
        ELSE LET ins == tree_insert(paths, path_string, serialize(now))
             IN  IF ins.old = None
                 THEN LET upd == update_paths_index_steps(
                                     main, path_string, "merge_fst_sets",
                                     IF fail_at = 0 THEN 0 ELSE fail_at - 1)
                      IN  [res |-> upd.res,
                           paths |-> IF upd.fault = None THEN ins.tree ELSE paths,
                           main |-> upd.main,
                           rebuilt |-> IsOk(upd.res),
                           ops |-> <<"paths.insert">> \o upd.ops,
                           fault |-> upd.fault]
                 ELSE [res |-> Ok(<<>>), paths |-> ins.tree, main |-> main,
                       rebuilt |-> FALSE, ops |-> <<"paths.insert">>,
                       fault |-> None]

\* Index::add: paths.insert is operation 1, then those of update_paths_index
add_steps(path_buf, fail_at) ==
    LET path_string == to_string_lossy(path_buf)
        same == [paths |-> paths, main |-> main, rebuilt |-> FALSE]
        unused == [ops |-> <<>>, fault |-> None]
    IN  IF ~is_dir(path_buf)
        THEN [res |-> Err([kind |-> "PathDoesNotExist", path |-> path_string])]
                 @@ same @@ unused
        ELSE IF ~is_absolute(path_buf)
        THEN [res |-> Err([kind |-> "RelativePath", path |-> path_string])]
                 @@ same @@ unused
        ELSE IF fail_at = 1
        THEN [res |-> Err(StoreError("Io")), ops |-> <<"paths.insert">>,
              fault |-> Fault("paths.insert", "Io")] @@ same
        ELSE LET ins == tree_insert(paths, path_string, serialize(now))
             IN  IF ins.old = None
                 THEN LET upd == update_paths_index_steps(
                                     main, path_string, "merge_fst_sets",
                                     IF fail_at = 0 THEN 0 ELSE fail_at - 1)
                      IN  [res |-> upd.res, paths |-> ins.tree, main |-> upd.main,
                           rebuilt |-> IsOk(upd.res),
                           ops |-> <<"paths.insert">> \o upd.ops,
                           fault |-> upd.fault]
                 ELSE [res |-> Ok(<<>>), paths |-> ins.tree, main |-> main,
                       rebuilt |-> FALSE, ops |-> <<"paths.insert">>,
                       fault |-> None]

\* Index::delete: paths.remove is operation 1, then those of update_paths_index
delete_steps(path_buf, fail_at) ==
    LET path_string == to_string_lossy(path_buf)
        rem == tree_remove(paths, path_string)
    IN  IF fail_at = 1
        THEN [res |-> Err(StoreError("Io")), paths |-> paths, main |-> main,
              rebuilt |-> FALSE, ops |-> <<"paths.remove">>,
              fault |-> Fault("paths.remove", "Io")]
        ELSE IF rem.old = None
        THEN [res |-> Ok(<<>>), paths |-> rem.tree, main |-> main,
              rebuilt |-> FALSE, ops |-> <<"paths.remove">>, fault |-> None]
        ELSE LET upd == update_paths_index_steps(
                            main, path_string, "remove_fst_set",
                            IF fail_at = 0 THEN 0 ELSE fail_at - 1)
             IN  [res |-> upd.res, paths |-> rem.tree, main |-> upd.main,
                  rebuilt |-> IsOk(upd.res),
                  ops |-> <<"paths.remove">> \o upd.ops, fault |-> upd.fault]

\* variant: any error of the first config.open has the database removed
open_steps_recreate_always(answers) ==
    LET same == [paths |-> paths, main |-> main]
        empty == [paths |-> EmptyTree, main |-> None]
        trees(at, ops, fault) ==
            IF answers[4] # "Ok"
            THEN [res |-> Err(StoreError(answers[4])),
                  ops |-> ops \o <<"open_tree:main">>,
                  fault |-> IF fault = None
                            THEN Fault("open_tree:main", answers[4]) ELSE fault] @@ at
            ELSE IF answers[5] # "Ok"
            THEN [res |-> Err(StoreError(answers[5])),
                  ops |-> ops \o <<"open_tree:main", "open_tree:paths">>,
                  fault |-> IF fault = None
                            THEN Fault("open_tree:paths", answers[5]) ELSE fault] @@ at
            ELSE [res |-> Ok(<<>>),
                  ops |-> ops \o <<"open_tree:main", "open_tree:paths">>,
                  fault |-> fault] @@ at
    IN  IF answers[1] = "Ok" THEN trees(same, <<"config.open">>, None)
        ELSE IF answers[1] # "Ok"
        THEN IF answers[2] # "Ok"
             THEN [res |-> Err(StoreError(answers[2])),
                   ops |-> <<"config.open", "remove_dir_all">>,
                   fault |-> Fault("config.open", "Unsupported")] @@ same
             ELSE IF answers[3] # "Ok"
             THEN [res |-> Err(StoreError(answers[3])),
                   ops |-> <<"config.open", "remove_dir_all", "config.open">>,
                   fault |-> Fault("config.open", "Unsupported")] @@ empty
             ELSE trees(empty, <<"config.open", "remove_dir_all", "config.open">>,
                        Fault("config.open", "Unsupported"))
        ELSE [res |-> Err(StoreError(answers[1])), ops |-> <<"config.open">>,
              fault |-> Fault("config.open", answers[1])] @@ same

\* Index::open, given what the store and the file system answer: to the first
\* config.open, to remove_dir_all, to the second config.open, to the two
\* open_tree calls.  Removing the database directory empties both trees.
open_steps(answers) ==
    LET same == [paths |-> paths, main |-> main]
        empty == [paths |-> EmptyTree, main |-> None]
        trees(at, ops, fault) ==
            IF answers[4] # "Ok"
            THEN [res |-> Err(StoreError(answers[4])),
                  ops |-> ops \o <<"open_tree:main">>,
                  fault |-> IF fault = None
                            THEN Fault("open_tree:main", answers[4]) ELSE fault] @@ at
            ELSE IF answers[5] # "Ok"
            THEN [res |-> Err(StoreError(answers[5])),
                  ops |-> ops \o <<"open_tree:main", "open_tree:paths">>,
                  fault |-> IF fault = None
                            THEN Fault("open_tree:paths", answers[5]) ELSE fault] @@ at
            ELSE [res |-> Ok(<<>>),
                  ops |-> ops \o <<"open_tree:main", "open_tree:paths">>,
                  fault |-> fault] @@ at
    IN  IF answers[1] = "Ok" THEN trees(same, <<"config.open">>, None)
        ELSE IF answers[1] = "Unsupported"
        THEN IF answers[2] # "Ok"
             THEN [res |-> Err(StoreError(answers[2])),
                   ops |-> <<"config.open", "remove_dir_all">>,
                   fault |-> Fault("config.open", "Unsupported")] @@ same
             ELSE IF answers[3] # "Ok"
             THEN [res |-> Err(StoreError(answers[3])),
                   ops |-> <<"config.open", "remove_dir_all", "config.open">>,
                   fault |-> Fault("config.open", "Unsupported")] @@ empty
             ELSE trees(empty, <<"config.open", "remove_dir_all", "config.open">>,
                        Fault("config.open", "Unsupported"))
        ELSE [res |-> Err(StoreError(answers[1])), ops |-> <<"config.open">>,
              fault |-> Fault("config.open", answers[1])] @@ same

\* Index::list: the Ledger in key order
RECURSIVE sort_keys(_)
sort_keys(keys) ==
    IF keys = {} THEN <<>>
    ELSE LET least == CHOOSE k \in keys : \A other \in keys \ {k} : BytesLess(k, other)
         IN  <<least>> \o sort_keys(keys \ {least})

\* variant: every entry carries the epoch instead of the stored timestamp
list_epoch ==
    LET keys == sort_keys(DOMAIN paths)
    IN  [i \in 1..Len(keys) |-> [timestamp |-> 0, path |-> keys[i]]]

list ==
    LET keys == sort_keys(DOMAIN paths)
    IN  [i \in 1..Len(keys) |-> [timestamp |-> deserialize(paths[keys[i]]), path |-> keys[i]]]

(***************************************************************************)
(* The query automata of Index::search.                                    *)
(***************************************************************************)
\* automaton::Subsequence: the state is how many bytes of the target were seen
RECURSIVE subsequence_state(_, _, _)
subsequence_state(target, input, state) ==
    IF input = <<>> THEN state
    ELSE IF state < Len(target) /\ target[state + 1] = Head(input)
    THEN subsequence_state(target, Tail(input), state + 1)
    ELSE subsequence_state(target, Tail(input), state)

subsequence_matches(target, input) ==
    subsequence_state(target, input, 0) = Len(target)

\* format!(".*{}.*", target): the target is pasted into the pattern as it is
format_pattern(target) == <<".", "*">> \o target \o <<".", "*">>

\* the regex parser on the characters the inputs hold: `.` is any character,
\* `*` repeats the item before it, `(` opens a group that nothing closes (an
\* error), any other character stands for itself, with its case folded
RECURSIVE regex_parse(_, _)
regex_parse(pattern, items) ==
    IF pattern = <<>> THEN Ok(items)
    ELSE LET c == Head(pattern)
         IN  IF c = "(" THEN Err([kind |-> "Regex", path |-> <<>>])
             ELSE IF c = "*"
             THEN IF items = <<>> THEN Err([kind |-> "Regex", path |-> <<>>])
                  ELSE regex_parse(Tail(pattern),
                                   [items EXCEPT ![Len(items)].star = TRUE])
             ELSE IF c = "."
             THEN regex_parse(Tail(pattern), Append(items, [atom |-> "any", star |-> FALSE]))
             ELSE regex_parse(Tail(pattern),
                              Append(items, [atom |-> ToLower(c), star |-> FALSE]))

\* Builder::new().case_insensitive(true).build(pattern)
regex_build(pattern) == regex_parse(pattern, <<>>)

atom_matches(item, c) == item.atom = "any" \/ item.atom = ToLower(c)

\* whether the whole input is in the language of the items
RECURSIVE regex_matches(_, _)
regex_matches(items, input) ==
    IF items = <<>> THEN input = <<>>
    ELSE LET item == Head(items)
         IN  IF item.star
             THEN \/ regex_matches(Tail(items), input)
                  \/ /\ input # <<>>
                     /\ atom_matches(item, Head(input))
                     /\ regex_matches(items, Tail(input))
             ELSE /\ input # <<>>
                  /\ atom_matches(item, Head(input))
                  /\ regex_matches(Tail(items), Tail(input))

\* variant: the complement of the excluded string is never intersected in
query_accepts_no_exclude(target, regex, exclude, input) ==
    subsequence_matches(target, input) \/ regex_matches(regex, input)

\* subseq.union(regex), and .intersection(Str::new(exclude).complement())
query_accepts(target, regex, exclude, input) ==
    /\ subsequence_matches(target, input) \/ regex_matches(regex, input)
    /\ exclude = None \/ input # to_string_lossy(Unwrap(exclude))

\* Index::search past its empty-target case: load the Set, build and run the query
search_index(target, exclude) ==
    LET fst_index == load_index(main)
        regex == regex_build(format_pattern(target))
    IN  IF IsErr(regex) THEN regex
        ELSE Ok(SelectSeq(fst_index,
                          LAMBDA s : query_accepts(target, regex.val, exclude, s)))

\* variant: the empty target is not special-cased and reaches the automata
search_without_shortcut(target, exclude) == search_index(target, exclude)

\* Index::search
search(target, exclude) ==
    IF target = <<>> THEN Ok(<<>>) ELSE search_index(target, exclude)

\* Index::find_all
find_all(target, exclude) == search(target, exclude)

(***************************************************************************)
(* Scoring and the tie-break of Index::find_one.                           *)
(***************************************************************************)
\* scorer.fuzzy_match(item, target).unwrap_or_default(): the score the
\* fuzzy-matcher library gives the item, 0 when it reports no match
fuzzy_match_or_default(item, target) == scorer[item]

\* score_results
score_results(results, target) ==
    [i \in 1..Len(results) |->
        [path |-> results[i],
         score |-> fuzzy_match_or_default(results[i], target),
         timestamp |-> None]]

components(p) ==
    LET names == split_names(p, <<>>)
        named == [i \in 1..Len(names) |->
                     IF names[i] = <<".", ".">> THEN [rank |-> 3, name |-> <<>>]
                     ELSE [rank |-> 4, name |-> names[i]]]
    IN  IF is_absolute(p) THEN <<[rank |-> 1, name |-> <<>>]>> \o named ELSE named

\* the derived order of PathBuf: component by component
RECURSIVE components_less(_, _)
components_less(a, b) ==
    IF b = <<>> THEN FALSE
    ELSE IF a = <<>> THEN TRUE
    ELSE IF Head(a).rank # Head(b).rank THEN Head(a).rank < Head(b).rank
    ELSE IF Head(a).name # Head(b).name THEN BytesLess(Head(a).name, Head(b).name)
    ELSE components_less(Tail(a), Tail(b))

\* variant: paths are ordered as strings, byte by byte
path_less_by_string(a, b) == BytesLess(a, b)

path_less(a, b) == components_less(components(a), components(b))

\* the derived order of Option<SystemTime>: None first
timestamp_less(a, b) ==
    IF a = None THEN b # None
    ELSE b # None /\ Unwrap(a) < Unwrap(b)

\* variant: the order of Score leaves the timestamp out
score_less_without_timestamp(x, y) ==
    IF x.score # y.score THEN x.score < y.score
    ELSE path_less(x.path, y.path)

\* the derived order of Score: score, then timestamp, then path
score_less(x, y) ==
    IF x.score # y.score THEN x.score < y.score
    ELSE IF x.timestamp # y.timestamp THEN timestamp_less(x.timestamp, y.timestamp)
    ELSE path_less(x.path, y.path)

\* Vec::sort: stable, ascending
RECURSIVE insert_sorted(_, _)
insert_sorted(sorted, x) ==
    IF sorted = <<>> THEN <<x>>
    ELSE IF score_less(x, sorted[Len(sorted)])
    THEN Append(insert_sorted(SubSeq(sorted, 1, Len(sorted) - 1), x), sorted[Len(sorted)])
    ELSE Append(sorted, x)

RECURSIVE sort(_)
sort(v) ==
    IF v = <<>> THEN <<>>
    ELSE insert_sorted(sort(SubSeq(v, 1, Len(v) - 1)), v[Len(v)])

\* Index::get_timestamp
get_timestamp(path) ==
    LET time_bytes == tree_get(paths, to_string_lossy(path))
    IN  IF time_bytes = None THEN None ELSE Some(deserialize(Unwrap(time_bytes)))

\* variant: the first element of the sorted vector is taken, not the last
get_best_score_first(results) ==
    IF results = <<>> THEN [best |-> None, lookups |-> <<>>]
    ELSE [best |-> Some(sort(results)[1]), lookups |-> <<>>]

\* variant: the timestamp of every candidate is read before the retain
get_best_score_stamps_all(results) ==
    IF results = <<>> THEN [best |-> None, lookups |-> <<>>]
    ELSE LET stamped == [i \in 1..Len(results) |->
                            [results[i] EXCEPT
                                !.timestamp = get_timestamp(results[i].path)]]
             sorted == sort(stamped)
         IN  [best |-> Some(sorted[Len(sorted)]),
              lookups |-> [i \in 1..Len(results) |-> results[i].path]]

\* Index::get_best_score: the winner and the paths whose timestamp was read
get_best_score(results) ==
    IF results = <<>> THEN [best |-> None, lookups |-> <<>>]
    ELSE LET sorted == sort(results)
             max_score == sorted[Len(sorted)].score
             retained == SelectSeq(sorted, LAMBDA x : x.score = max_score)
         IN  IF Len(retained) > 1
             THEN LET stamped == [i \in 1..Len(retained) |->
                                     [retained[i] EXCEPT
                                         !.timestamp = get_timestamp(retained[i].path)]]
                      resorted == sort(stamped)
                  IN  [best |-> Some(resorted[Len(resorted)]),
                       lookups |-> [i \in 1..Len(retained) |-> retained[i].path]]
             ELSE [best |-> Some(retained[Len(retained)]), lookups |-> <<>>]

\* Index::find_one: the result and the timestamp lookups it made
find_one(target, exclude) ==
    IF target = <<>> THEN [res |-> Ok(None), lookups |-> <<>>]
    ELSE LET results == search(target, exclude)
         IN  IF IsErr(results) THEN [res |-> results, lookups |-> <<>>]
             ELSE LET best_score == get_best_score(score_results(results.val, target))
                  IN  [res |-> Ok(IF best_score.best = None THEN None
                                  ELSE Some(Unwrap(best_score.best).path)),
                       lookups |-> best_score.lookups]

(***************************************************************************)
(* The state machine: one action per call of the Index API, and the        *)
(* environment's steps (the clock, directories removed from the disk).     *)
(***************************************************************************)
\* the strings that can become keys of the Ledger
Indexable == {to_string_lossy(p) : p \in {d \in InitialDirs : is_absolute(d)}}

NoCall ==
    [op |-> "open", path |-> <<>>, target |-> <<>>, exclude |-> None,
     is_dir |-> FALSE, time |-> 0, res |-> Ok(<<>>), rebuilt |-> FALSE,
     lookups |-> <<>>, args |-> <<>>, ops |-> <<>>, fault |-> None]

\* Index::open on a fresh database: both trees empty
Init ==
    /\ dirs = InitialDirs
    /\ now = 0
    /\ scorer \in [Indexable -> Scores]
    /\ paths = EmptyTree
    /\ main = None
    /\ ret = NoCall
    /\ pre = [paths |-> EmptyTree, main |-> None]

Add ==
    \E p \in InputPaths :
        LET out == add(p)
        IN  /\ pre' = [paths |-> paths, main |-> main]
            /\ paths' = out.paths
            /\ main' = out.main
            /\ ret' = [NoCall EXCEPT !.op = "add", !.path = p, !.is_dir = p \in dirs,
                                     !.time = now, !.res = out.res,
                                     !.rebuilt = out.rebuilt]
            /\ UNCHANGED <<dirs, now, scorer>>

Delete ==
    \E p \in InputPaths :
        LET out == delete(p)
        IN  /\ pre' = [paths |-> paths, main |-> main]
            /\ paths' = out.paths
            /\ main' = out.main
            /\ ret' = [NoCall EXCEPT !.op = "delete", !.path = p,
                                     !.is_dir = p \in dirs,
                                     !.res = out.res, !.rebuilt = out.rebuilt]
            /\ UNCHANGED <<dirs, now, scorer>>

FindAll ==
    \E target \in Targets, exclude \in Excludes :
        /\ pre' = [paths |-> paths, main |-> main]
        /\ ret' = [NoCall EXCEPT !.op = "find_all", !.target = target,
                                 !.exclude = exclude,
                                 !.res = find_all(target, exclude)]
        /\ UNCHANGED <<dirs, now, scorer, paths, main>>

FindOne ==
    \E target \in Targets, exclude \in Excludes :
        LET out == find_one(target, exclude)
        IN  /\ pre' = [paths |-> paths, main |-> main]
            /\ ret' = [NoCall EXCEPT !.op = "find_one", !.target = target,
                                     !.exclude = exclude,
                                     !.res = out.res, !.lookups = out.lookups]
            /\ UNCHANGED <<dirs, now, scorer, paths, main>>

List ==
    /\ pre' = [paths |-> paths, main |-> main]
    /\ ret' = [NoCall EXCEPT !.op = "list", !.res = Ok(list)]
    /\ UNCHANGED <<dirs, now, scorer, paths, main>>

\* a directory is removed from the disk
Rmdir ==
    \E p \in dirs :
        /\ dirs' = dirs \ {p}
        /\ UNCHANGED <<now, scorer, paths, main, ret, pre>>

\* the clock advances
Tick ==
    /\ now < MaxTime
    /\ now' = now + 1
    /\ UNCHANGED <<dirs, scorer, paths, main, ret, pre>>

\* the calls of the Index API while the disk stays as it is
Next == Add \/ Delete \/ FindAll \/ FindOne \/ Tick

Spec == Init /\ [][Next]_vars

\* the mutating calls while directories disappear from the disk
InitDisk == Init /\ scorer = [p \in Indexable |-> 0]

NextDisk == Add \/ Delete \/ List \/ Rmdir \/ Tick

SpecDisk == InitDisk /\ [][NextDisk]_vars

(***************************************************************************)
(* get_best_score called on a vector of candidates that need not be in the *)
(* Ledger, as the unit tests of the tie-break call it.                     *)
(***************************************************************************)
\* the vectors a search can hand over: some of the strings, in key order
CandidateVectors == {sort_keys(keys) : keys \in SUBSET Indexable}

GetBestScore ==
    \E results \in CandidateVectors :
        LET out == get_best_score(score_results(results, <<"a", "b">>))
        IN  /\ pre' = [paths |-> paths, main |-> main]
            /\ ret' = [NoCall EXCEPT !.op = "get_best_score",
                                     !.target = <<"a", "b">>,
                                     !.args = <<results>>,
                                     !.res = Ok(IF out.best = None THEN None
                                                ELSE Some(Unwrap(out.best).path)),
                                     !.lookups = out.lookups]
            /\ UNCHANGED <<dirs, now, scorer, paths, main>>

NextScore == Add \/ FindOne \/ GetBestScore \/ Tick

SpecScore == Init /\ [][NextScore]_vars

(***************************************************************************)
(* run_search: find_all once, or the loop that calls find_one and deletes   *)
(* what it returned when that is no longer a directory.  ret.op tells where *)
(* the loop stands; no other call is made while it runs.                    *)
(***************************************************************************)
LoopRunning == ret.op \in {"run_search:find_one", "run_search:delete"}

\* variant: find_one itself takes a winner that is no longer a directory out
\* of both trees
RunSearchFindOneHealing ==
    /\ ret.op # "run_search:find_one"
    /\ \E target \in Targets, exclude \in Excludes :
           /\ ret.op = "run_search:delete" =>
                  target = ret.target /\ exclude = ret.exclude
           /\ LET out == find_one(target, exclude)
                  dead == IF IsErr(out.res) THEN FALSE
                          ELSE IF out.res.val = None THEN FALSE
                          ELSE ~is_dir(Unwrap(out.res.val))
                  healed == IF dead THEN delete(Unwrap(out.res.val))
                            ELSE [paths |-> paths, main |-> main]
              IN  /\ pre' = [paths |-> paths, main |-> main]
                  /\ paths' = healed.paths
                  /\ main' = healed.main
                  /\ ret' = [NoCall EXCEPT !.op = "run_search:find_one",
                                           !.target = target, !.exclude = exclude,
                                           !.res = out.res, !.lookups = out.lookups]
    /\ UNCHANGED <<dirs, now, scorer>>

\* index.find_one(target, exclude) at the head of the loop
RunSearchFindOne ==
    /\ ret.op # "run_search:find_one"
    /\ \E target \in Targets, exclude \in Excludes :
           /\ ret.op = "run_search:delete" =>
                  target = ret.target /\ exclude = ret.exclude
           /\ LET out == find_one(target, exclude)
              IN  /\ pre' = [paths |-> paths, main |-> main]
                  /\ ret' = [NoCall EXCEPT !.op = "run_search:find_one",
                                           !.target = target, !.exclude = exclude,
                                           !.res = out.res, !.lookups = out.lookups]
    /\ UNCHANGED <<dirs, now, scorer, paths, main>>

\* variant: what find_one returned is deleted whether its directory is there
\* or not
RunSearchDeleteAlways ==
    /\ ret.op = "run_search:find_one"
    /\ IsOk(ret.res)
    /\ ret.res.val # None
    /\ LET directory == Unwrap(ret.res.val)
           out == delete(directory)
       IN  /\ pre' = [paths |-> paths, main |-> main]
           /\ paths' = out.paths
           /\ main' = out.main
           /\ ret' = [NoCall EXCEPT
                         !.op = IF IsOk(out.res) THEN "run_search:delete"
                                ELSE "run_search:return",
                         !.target = ret.target, !.exclude = ret.exclude,
                         !.path = directory, !.res = out.res,
                         !.rebuilt = out.rebuilt]
    /\ UNCHANGED <<dirs, now, scorer>>

\* the directory find_one returned is gone: index.delete(&directory), and again
RunSearchDelete ==
    /\ ret.op = "run_search:find_one"
    /\ IsOk(ret.res)
    /\ ret.res.val # None
    /\ ~is_dir(Unwrap(ret.res.val))
    /\ LET directory == Unwrap(ret.res.val)
           out == delete(directory)
       IN  /\ pre' = [paths |-> paths, main |-> main]
           /\ paths' = out.paths
           /\ main' = out.main
           /\ ret' = [NoCall EXCEPT
                         !.op = IF IsOk(out.res) THEN "run_search:delete"
                                ELSE "run_search:return",
                         !.target = ret.target, !.exclude = ret.exclude,
                         !.path = directory, !.res = out.res,
                         !.rebuilt = out.rebuilt]
    /\ UNCHANGED <<dirs, now, scorer>>

\* the loop is left: the error of find_one, NoResults, or the directory printed
RunSearchReturn ==
    /\ ret.op = "run_search:find_one"
    /\ IF IsErr(ret.res) THEN TRUE
       ELSE IF ret.res.val = None THEN TRUE
       ELSE is_dir(Unwrap(ret.res.val))
    /\ ret' = [NoCall EXCEPT
                  !.op = "run_search:return",
                  !.target = ret.target, !.exclude = ret.exclude,
                  !.is_dir = IsOk(ret.res) /\ ret.res.val # None,
                  !.res = IF IsErr(ret.res) THEN ret.res
                          ELSE IF ret.res.val = None
                          THEN Err([kind |-> "NoResults", path |-> ret.target])
                          ELSE Ok(Unwrap(ret.res.val))]
    /\ UNCHANGED <<dirs, now, scorer, paths, main, pre>>

\* every add is made at one clock reading: the timestamps decide which of the
\* tied paths a round of the loop looks at first, not what the round does
NextLoop ==
    \/ ~LoopRunning /\ Add
    \/ ~LoopRunning /\ Delete
    \/ ~LoopRunning /\ FindAll
    \/ RunSearchFindOne
    \/ RunSearchDelete
    \/ RunSearchReturn
    \/ Rmdir

\* the absolute directories exist
InitLoop ==
    /\ dirs = {d \in InitialDirs : is_absolute(d)}
    /\ now = 0
    /\ scorer = [p \in Indexable |-> 0]
    /\ paths = EmptyTree
    /\ main = None
    /\ ret = NoCall
    /\ pre = [paths |-> EmptyTree, main |-> None]

SpecLoop == InitLoop /\ [][NextLoop]_vars

(***************************************************************************)
(* The mutating calls and Index::open on a store that can fail; the        *)
(* mutating calls with the process killed between the Ledger mutation and  *)
(* the Index rebuild.                                                      *)
(***************************************************************************)
FaultPaths == {PathAb, PathUpperAB, PathFile}

\* which store operation of a call fails: none, the first, second or third
FailAt == 0..3

OpenAnswers ==
    {a \in [1..5 -> {"Ok", "Io", "Unsupported"}] :
        a[2] # "Unsupported" /\ a[4] # "Unsupported" /\ a[5] # "Unsupported"}

Open ==
    \E answers \in OpenAnswers :
        LET out == open_steps(answers)
        IN  /\ pre' = [paths |-> paths, main |-> main]
            /\ paths' = out.paths
            /\ main' = out.main
            /\ ret' = [NoCall EXCEPT !.op = "open", !.args = answers,
                                     !.res = out.res, !.ops = out.ops,
                                     !.fault = out.fault]
            /\ UNCHANGED <<dirs, now, scorer>>

AddFaulty ==
    \E p \in FaultPaths, fail_at \in FailAt :
        LET out == add_steps(p, fail_at)
        IN  /\ fail_at = 0 \/ out.fault # None
            /\ pre' = [paths |-> paths, main |-> main]
            /\ paths' = out.paths
            /\ main' = out.main
            /\ ret' = [NoCall EXCEPT !.op = "add", !.path = p, !.is_dir = p \in dirs,
                                     !.time = now, !.res = out.res,
                                     !.rebuilt = out.rebuilt, !.ops = out.ops,
                                     !.fault = out.fault]
            /\ UNCHANGED <<dirs, now, scorer>>

DeleteFaulty ==
    \E p \in FaultPaths, fail_at \in FailAt :
        LET out == delete_steps(p, fail_at)
        IN  /\ fail_at = 0 \/ out.fault # None
            /\ pre' = [paths |-> paths, main |-> main]
            /\ paths' = out.paths
            /\ main' = out.main
            /\ ret' = [NoCall EXCEPT !.op = "delete", !.path = p,
                                     !.is_dir = p \in dirs, !.res = out.res,
                                     !.rebuilt = out.rebuilt, !.ops = out.ops,
                                     !.fault = out.fault]
            /\ UNCHANGED <<dirs, now, scorer>>

\* the process is killed after paths.insert and before main.insert
AddInterrupted ==
    \E p \in FaultPaths :
        LET out == add_steps(p, 3)
        IN  /\ out.fault # None
            /\ pre' = [paths |-> paths, main |-> main]
            /\ paths' = out.paths
            /\ main' = out.main
            /\ ret' = [NoCall EXCEPT !.op = "add:interrupted", !.path = p,
                                     !.is_dir = p \in dirs, !.time = now,
                                     !.ops = out.ops]
            /\ UNCHANGED <<dirs, now, scorer>>

\* the process is killed after paths.remove and before main.insert
DeleteInterrupted ==
    \E p \in FaultPaths :
        LET out == delete_steps(p, 3)
        IN  /\ out.fault # None
            /\ pre' = [paths |-> paths, main |-> main]
            /\ paths' = out.paths
            /\ main' = out.main
            /\ ret' = [NoCall EXCEPT !.op = "delete:interrupted", !.path = p,
                                     !.is_dir = p \in dirs, !.ops = out.ops]
            /\ UNCHANGED <<dirs, now, scorer>>

NextFault == Open \/ AddFaulty \/ DeleteFaulty \/ Tick

SpecFault == InitDisk /\ [][NextFault]_vars

NextCrash == Add \/ Delete \/ AddInterrupted \/ DeleteInterrupted \/ Tick

SpecCrash == InitDisk /\ [][NextCrash]_vars

\* the mutating calls, each of which a store failure or a kill can interrupt
NextInterrupt ==
    AddFaulty \/ DeleteFaulty \/ AddInterrupted \/ DeleteInterrupted \/ Tick

SpecInterrupt == InitDisk /\ [][NextInterrupt]_vars

(***************************************************************************)
(* Two calls of Index::add on the same trees at once, as two threads that  *)
(* share an Index can make them.  Each store operation is one step; what a *)
(* call holds between its steps (its path, where it stands, the value it   *)
(* read from `main`, its result) is its record in ret.args.                *)
(***************************************************************************)
Callers == 1..2

AddsRunning ==
    /\ ret.op = "add||add"
    /\ \E i \in Callers : ret.args[i].pc # "done"

\* both calls enter add with directories that are absolute and in no tree
ConcurrentAdds ==
    /\ ~AddsRunning
    /\ \E p1, p2 \in {d \in dirs : is_absolute(d)} :
           /\ p1 # p2
           /\ {to_string_lossy(p1), to_string_lossy(p2)}
                  \cap (DOMAIN paths \cup SeqToSet(load_index(main))) = {}
           /\ ret' = [NoCall EXCEPT
                         !.op = "add||add",
                         !.args = [i \in Callers |->
                                      [path |-> IF i = 1 THEN p1 ELSE p2,
                                       pc |-> "paths.insert",
                                       read |-> None,
                                       res |-> None]]]
    /\ pre' = [paths |-> paths, main |-> main]
    /\ UNCHANGED <<dirs, now, scorer, paths, main>>

\* self.paths.insert(path_bytes, time_bytes)?
AddPathsInsert ==
    /\ ret.op = "add||add"
    /\ \E i \in Callers :
           /\ ret.args[i].pc = "paths.insert"
           /\ LET ins == tree_insert(paths, to_string_lossy(ret.args[i].path),
                                     serialize(now))
              IN  /\ paths' = ins.tree
                  /\ ret' = IF ins.old = None
                            THEN [ret EXCEPT !.args[i].pc = "main.get"]
                            ELSE [ret EXCEPT !.args[i].pc = "done",
                                             !.args[i].res = Some(Ok(<<>>))]
    /\ UNCHANGED <<dirs, now, scorer, main, pre>>

\* self.main.get(INDEX_KEY)? in update_paths_index
AddMainGet ==
    /\ ret.op = "add||add"
    /\ \E i \in Callers :
           /\ ret.args[i].pc = "main.get"
           /\ ret' = [ret EXCEPT !.args[i].pc = "main.insert",
                                 !.args[i].read = Some(main)]
    /\ UNCHANGED <<dirs, now, scorer, paths, main, pre>>

\* op(&paths_fst, &delta_fst)? on the value read, then
\* self.main.insert(INDEX_KEY, ...)?
AddMainInsert ==
    /\ ret.op = "add||add"
    /\ \E i \in Callers :
           /\ ret.args[i].pc = "main.insert"
           /\ LET upd == update_paths_index(Unwrap(ret.args[i].read),
                                            to_string_lossy(ret.args[i].path),
                                            "merge_fst_sets")
              IN  /\ main' = upd.main
                  /\ ret' = [ret EXCEPT !.args[i].pc = "done",
                                        !.args[i].res = Some(upd.res)]
    /\ UNCHANGED <<dirs, now, scorer, paths, pre>>

NextRace ==
    \/ ~AddsRunning /\ Delete
    \/ ConcurrentAdds
    \/ AddPathsInsert
    \/ AddMainGet
    \/ AddMainInsert
    \/ Tick

SpecRace == InitDisk /\ [][NextRace]_vars

(***************************************************************************)
(* Shell::try_from, applied to any short string.                           *)
(***************************************************************************)
\* str::to_lowercase
to_lowercase(value) == [i \in 1..Len(value) |-> ToLower(value[i])]

\* str::trim: the white space at both ends is taken off
RECURSIVE trim_start(_)
trim_start(value) ==
    IF value = <<>> THEN <<>>
    ELSE IF Head(value) = " " THEN trim_start(Tail(value))
    ELSE value

RECURSIVE trim_end(_)
trim_end(value) ==
    IF value = <<>> THEN <<>>
    ELSE IF value[Len(value)] = " " THEN trim_end(SubSeq(value, 1, Len(value) - 1))
    ELSE value

trim(value) == trim_end(trim_start(value))

\* variant: the error carries the trimmed lower-case name
try_from_normalized_name(value) ==
    LET name == trim(to_lowercase(value))
    IN  IF name = <<"z", "s", "h">> THEN Ok("Zsh")
        ELSE IF name = <<"b", "a", "s", "h">> THEN Ok("Bash")
        ELSE Err([kind |-> "UnknownShellName", name |-> name])

\* impl TryFrom<&str> for Shell
try_from(value) ==
    LET name == trim(to_lowercase(value))
    IN  IF name = <<"z", "s", "h">> THEN Ok("Zsh")
        ELSE IF name = <<"b", "a", "s", "h">> THEN Ok("Bash")
        ELSE Err([kind |-> "UnknownShellName", name |-> value])

ShellChars == {"z", "s", "h", "b", "a", "Z", "S", " "}

ShellNames == UNION {[1..n -> ShellChars] : n \in 0..MaxShellLen}

\* the string the command line gives for the shell
InitShell ==
    /\ dirs = InitialDirs
    /\ now = 0
    /\ scorer = [p \in Indexable |-> 0]
    /\ paths = EmptyTree
    /\ main = None
    /\ ret \in {[NoCall EXCEPT !.op = "init", !.args = <<value>>] :
                    value \in ShellNames}
    /\ pre = [paths |-> EmptyTree, main |-> None]

ShellTryFrom ==
    /\ ret.op = "init"
    /\ ret' = [ret EXCEPT !.op = "Shell::try_from", !.res = try_from(ret.args[1])]
    /\ UNCHANGED <<dirs, now, scorer, paths, main, pre>>

NextShell == ShellTryFrom

SpecShell == InitShell /\ [][NextShell]_vars

(***************************************************************************)
(* The set operations of the Index rebuild, applied to any two sets.       *)
(***************************************************************************)
FstKeys == {<<"A">>, <<"a">>, <<"a", "b">>, <<"b">>}

\* every fst::Set over FstKeys
FstSets == {sort_keys(keys) : keys \in SUBSET FstKeys}

MergeFstSets ==
    \E paths_set \in FstSets, delta_set \in FstSets :
        /\ ret' = [NoCall EXCEPT !.op = "merge_fst_sets",
                                 !.args = <<paths_set, delta_set>>,
                                 !.res = merge_fst_sets(paths_set, delta_set)]
        /\ UNCHANGED <<dirs, now, scorer, paths, main, pre>>

RemoveFstSet ==
    \E paths_set \in FstSets, delta_set \in FstSets :
        /\ ret' = [NoCall EXCEPT !.op = "remove_fst_set",
                                 !.args = <<paths_set, delta_set>>,
                                 !.res = remove_fst_set(paths_set, delta_set)]
        /\ UNCHANGED <<dirs, now, scorer, paths, main, pre>>

NextFst == MergeFstSets \/ RemoveFstSet

SpecFst == InitDisk /\ [][NextFst]_vars

(***************************************************************************)
(* The calls of the Index API on the disk of NamesDirs.                    *)
(***************************************************************************)
InitNames ==
    /\ dirs = NamesDirs
    /\ now = 0
    /\ scorer = [p \in NamesDirs |-> 0]
    /\ paths = EmptyTree
    /\ main = None
    /\ ret = NoCall
    /\ pre = [paths |-> EmptyTree, main |-> None]

SpecNames == InitNames /\ [][Next]_vars

(***************************************************************************)
(* find_one and get_best_score on a disk whose directory names order        *)
(* differently as strings and as paths: "/a.b" sorts before "/a/b" byte by  *)
(* byte and after it component by component, and "/a/b/" is "/a/b" written  *)
(* with a trailing separator.                                              *)
(***************************************************************************)
TieDirs == {PathASlashB, PathADotB, PathASlashBSlash}

\* the candidates in every order they can be handed over in
TieVectors ==
    {v \in UNION {[1..n -> TieDirs] : n \in 0..Cardinality(TieDirs)} :
        \A i, j \in 1..Len(v) : v[i] = v[j] => i = j}

InitTie ==
    /\ dirs = TieDirs
    /\ now = 0
    /\ scorer = [p \in TieDirs |-> 0]
    /\ paths = EmptyTree
    /\ main = None
    /\ ret = NoCall
    /\ pre = [paths |-> EmptyTree, main |-> None]

AddTied ==
    \E p \in TieDirs :
        LET out == add(p)
        IN  /\ pre' = [paths |-> paths, main |-> main]
            /\ paths' = out.paths
            /\ main' = out.main
            /\ ret' = [NoCall EXCEPT !.op = "add", !.path = p, !.is_dir = p \in dirs,
                                     !.time = now, !.res = out.res,
                                     !.rebuilt = out.rebuilt]
            /\ UNCHANGED <<dirs, now, scorer>>

GetBestScoreAnyOrder ==
    \E results \in TieVectors :
        LET out == get_best_score(score_results(results, <<"a", "b">>))
        IN  /\ pre' = [paths |-> paths, main |-> main]
            /\ ret' = [NoCall EXCEPT !.op = "get_best_score",
                                     !.target = <<"a", "b">>,
                                     !.args = <<results>>,
                                     !.res = Ok(IF out.best = None THEN None
                                                ELSE Some(Unwrap(out.best).path)),
                                     !.lookups = out.lookups]
            /\ UNCHANGED <<dirs, now, scorer, paths, main>>

NextTie == AddTied \/ FindOne \/ GetBestScoreAnyOrder \/ Tick

SpecTie == InitTie /\ [][NextTie]_vars

(***************************************************************************)
(* Properties.                                                             *)
(***************************************************************************)
\* the elements of the Membership Index
IndexSet == SeqToSet(load_index(main))

\* the keys of the Path Ledger
LedgerKeys == DOMAIN paths

\* the last call left both trees as it found them
StoreUntouched == paths = pre.paths /\ main = pre.main

\* the Ledger key the last call's path argument stands for
CallKey == to_string_lossy(ret.path)

C2_AddNotDirectoryFails ==
    (ret.op = "add" /\ ~ret.is_dir) =>
        /\ ret.res = Err([kind |-> "PathDoesNotExist", path |-> CallKey])
        /\ StoreUntouched

\* add of a regular file was refused while the store held entries
C2_Witness ==
    /\ ret.op = "add"
    /\ ret.path = PathFile
    /\ ~ret.is_dir
    /\ LedgerKeys # {}
    /\ IsErr(ret.res)

\* C3: add of an existing directory given as a relative path fails with
\* RelativePath carrying that path and mutates neither tree.
C3_AddRelativeFails ==
    (ret.op = "add" /\ ret.is_dir /\ ret.path[1] # "/") =>
        /\ ret.res = Err([kind |-> "RelativePath", path |-> CallKey])
        /\ StoreUntouched

\* add of the relative directory was refused while the store held entries
C3_Witness ==
    /\ ret.op = "add"
    /\ ret.path = PathRelative
    /\ ret.is_dir
    /\ LedgerKeys # {}
    /\ IsErr(ret.res)

\* C4: delete of a path that is not in the Ledger returns success and changes
\* neither tree; so a second delete of a path changes nothing the first left.
C4_DeleteAbsentIsNoop ==
    /\ (ret.op = "delete" /\ CallKey \notin DOMAIN pre.paths) =>
           (ret.res = Ok(<<>>) /\ StoreUntouched)
    /\ (ret.op = "delete" /\ IsOk(ret.res)) =>
           LET again == delete(ret.path)
           IN  again.res = Ok(<<>>) /\ again.paths = paths /\ again.main = main

\* delete of a path that was deleted before, with other paths still indexed
C4_Witness ==
    /\ ret.op = "delete"
    /\ ret.path = PathAb
    /\ PathAb \notin DOMAIN pre.paths
    /\ LedgerKeys # {}
    /\ ~ret.rebuilt

\* C5: a successful add of a path already in the Ledger sets that path's
\* timestamp to the time of the call, leaves every other entry alone, runs no
\* rebuild and leaves the Membership Index as it was.
C5_RepeatAddOnlyTouchesTimestamp ==
    (ret.op = "add" /\ IsOk(ret.res) /\ CallKey \in DOMAIN pre.paths) =>
        /\ LedgerKeys = DOMAIN pre.paths
        /\ deserialize(paths[CallKey]) = ret.time
        /\ \A k \in LedgerKeys \ {CallKey} : paths[k] = pre.paths[k]
        /\ ~ret.rebuilt
        /\ main = pre.main
        /\ Len(load_index(main)) = Len(load_index(pre.main))

\* a path added at time 0 was added again at time 1
C5_Witness ==
    /\ ret.op = "add"
    /\ IsOk(ret.res)
    /\ CallKey \in DOMAIN pre.paths
    /\ deserialize(pre.paths[CallKey]) = 0
    /\ deserialize(paths[CallKey]) = 1
    /\ Cardinality(LedgerKeys) = 2

\* the paths Index::list returns
ListedPaths == {list[i].path : i \in 1..Len(list)}

\* C6: after a successful delete the path is in neither tree, and a path that
\* is not in the Ledger is in no list and in no find_all or find_one result.
C6_DeletedPathIsAbsent ==
    /\ (ret.op = "delete" /\ IsOk(ret.res)) => CallKey \notin LedgerKeys
    /\ \A p \in Indexable \ LedgerKeys :
           /\ p \notin IndexSet
           /\ p \notin ListedPaths
           /\ (ret.op = "find_all" /\ IsOk(ret.res)) => p \notin SeqToSet(ret.res.val)
           /\ (ret.op = "find_one" /\ IsOk(ret.res)) => ret.res.val # Some(p)

\* delete removed one of several indexed paths
C6_Witness ==
    /\ ret.op = "delete"
    /\ IsOk(ret.res)
    /\ ret.rebuilt
    /\ CallKey \in DOMAIN pre.paths
    /\ Cardinality(LedgerKeys) = 2

\* C7: for the empty target find_one returns None and find_all returns an
\* empty sequence, whatever the trees hold and whatever exclude is given.
C7_EmptyTargetFindsNothing ==
    /\ (ret.op = "find_one" /\ ret.target = <<>>) => ret.res = Ok(None)
    /\ (ret.op = "find_all" /\ ret.target = <<>>) => ret.res = Ok(<<>>)

\* find_all of the empty target, with an exclude, on an Index of three paths
C7_Witness ==
    /\ ret.op = "find_all"
    /\ ret.target = <<>>
    /\ ret.exclude # None
    /\ Cardinality(IndexSet) = 3

\* C8: the excluded path string is in no find_all result and is never what
\* find_one returns; when it is the only candidate, find_one returns None.
C8_ExcludedNeverReturned ==
    (ret.op \in {"find_all", "find_one"} /\ ret.exclude # None /\ IsOk(ret.res)) =>
        LET excluded == to_string_lossy(Unwrap(ret.exclude))
            unfiltered == search(ret.target, None)
        IN  /\ ret.op = "find_all" => excluded \notin SeqToSet(ret.res.val)
            /\ ret.op = "find_one" =>
                   /\ ret.res.val # Some(excluded)
                   /\ SeqToSet(unfiltered.val) = {excluded} => ret.res.val = None

\* find_one excluded the only path that matches the target
C8_Witness ==
    /\ ret.op = "find_one"
    /\ ret.target = <<"a", "b">>
    /\ ret.exclude = Some(PathAb)
    /\ IndexSet = {PathAb}
    /\ ret.res = Ok(None)

\* a string with every letter folded to lower case
FoldCase(s) == [i \in 1..Len(s) |-> ToLower(s[i])]

\* the input holds the target as a contiguous run, letter case aside
ContainsCaseless(target, input) ==
    \E i \in 0..(Len(input) - Len(target)) :
        SubSeq(FoldCase(input), i + 1, i + Len(target)) = FoldCase(target)

\* what the two matchers accept among the elements of the Index
ExpectedCandidates(target, exclude) ==
    {s \in IndexSet :
        /\ subsequence_matches(target, s) \/ ContainsCaseless(target, s)
        /\ exclude = None \/ s # to_string_lossy(Unwrap(exclude))}

\* C9: for a non-empty target, a find_all that returns holds exactly the
\* elements of the Index that the subsequence matcher or the case-insensitive
\* substring matcher accepts, the excluded path aside.
C9_FindAllIsExactlyTheMatches ==
    (ret.op = "find_all" /\ ret.target # <<>> /\ IsOk(ret.res)) =>
        SeqToSet(ret.res.val) = ExpectedCandidates(ret.target, ret.exclude)

\* the score score_results gives a candidate
ScoreOf(item, target) == fuzzy_match_or_default(item, target)

\* C10: find_one returns None exactly when find_all, on the same state and
\* arguments, returns an empty sequence; otherwise it returns an element of the
\* find_all result whose score no other element exceeds; it fails only when
\* find_all fails.
C10_FindOneIsABestCandidate ==
    ret.op = "find_one" =>
        LET all == find_all(ret.target, ret.exclude)
        IN  /\ IsOk(ret.res) <=> IsOk(all)
            /\ IsOk(all) =>
                   /\ ret.res.val = None <=> all.val = <<>>
                   /\ all.val # <<>> =>
                          /\ Unwrap(ret.res.val) \in SeqToSet(all.val)
                          /\ \A c \in SeqToSet(all.val) :
                                 ScoreOf(c, ret.target)
                                     <= ScoreOf(Unwrap(ret.res.val), ret.target)

\* find_one chose among three candidates, one of which scores above the others
C10_Witness ==
    /\ ret.op = "find_one"
    /\ IsOk(ret.res)
    /\ Len(find_all(ret.target, ret.exclude).val) = 3
    /\ \E c \in IndexSet : \A d \in IndexSet \ {c} : scorer[d] < scorer[c]
    /\ ret.lookups = <<>>

\* the candidates the last find_one or get_best_score chose among
TieCandidates ==
    IF ret.op = "get_best_score" THEN SeqToSet(ret.args[1])
    ELSE LET all == find_all(ret.target, ret.exclude)
         IN  IF IsOk(all) THEN SeqToSet(all.val) ELSE {}

\* the candidates whose score no candidate exceeds
TopCandidates ==
    LET candidates == TieCandidates
    IN  {c \in candidates :
            \A d \in candidates : ScoreOf(d, ret.target) <= ScoreOf(c, ret.target)}

\* 0 for a path without a Ledger entry, else one more than its Ledger timestamp
LedgerRank(p) == IF p \in LedgerKeys THEN deserialize(paths[p]) + 1 ELSE 0

\* C11: when several candidates share the maximum score, the path returned is
\* one of them and no other of them has a more recent Ledger timestamp; a tied
\* candidate without a Ledger entry ranks below every tied candidate with one.
C11_TieGoesToMostRecentTimestamp ==
    (ret.op \in {"find_one", "get_best_score"} /\ IsOk(ret.res)) =>
        LET top == TopCandidates
        IN  Cardinality(top) > 1 =>
                /\ ret.res.val # None
                /\ Unwrap(ret.res.val) \in top
                /\ \A c \in top : LedgerRank(c) <= LedgerRank(Unwrap(ret.res.val))
                /\ (\E c \in top : c \in LedgerKeys) =>
                       Unwrap(ret.res.val) \in LedgerKeys

\* find_one broke a tie by the later timestamp against the order of the paths
C11_Witness ==
    /\ ret.op = "find_one"
    /\ Cardinality(TopCandidates) > 1
    /\ \E c \in TopCandidates :
           /\ path_less(Unwrap(ret.res.val), c)
           /\ LedgerRank(c) < LedgerRank(Unwrap(ret.res.val))

\* get_best_score preferred the tied candidate that has a Ledger entry
C11_WitnessNoEntry ==
    /\ ret.op = "get_best_score"
    /\ Cardinality(TopCandidates) > 1
    /\ Unwrap(ret.res.val) \in LedgerKeys
    /\ \E c \in TopCandidates :
           c \notin LedgerKeys /\ path_less(Unwrap(ret.res.val), c)

\* C12: when the one path of the Index holds the target as a contiguous run,
\* letter case aside, and is not excluded, find_one returns that path.
C12_CaselessRunIsFound ==
    (ret.op = "find_one" /\ ret.target # <<>>) =>
        \A p \in IndexSet :
            (/\ IndexSet = {p}
             /\ ContainsCaseless(ret.target, p)
             /\ ret.exclude = None \/ to_string_lossy(Unwrap(ret.exclude)) # p)
                => ret.res = Ok(Some(p))

\* find_one found the one indexed path by a target in the other letter case
C12_CaseDiffers ==
    /\ ret.op = "find_one"
    /\ ret.target = <<"A", "B">>
    /\ IndexSet = {PathAb}
    /\ ret.res = Ok(Some(PathAb))

\* C13: the search loop ends by printing a directory that exists or by
\* raising NoResults for its target.
C13_LoopEndsLiveOrNoResults ==
    ret.op = "run_search:return" =>
        \/ IsOk(ret.res) /\ ret.is_dir
        \/ ret.res = Err([kind |-> "NoResults", path |-> ret.target])

\* every round of the loop that does not leave it takes an element out of the
\* Index, so the loop goes round at most as often as the Index has elements
C13_RoundShrinksIndex ==
    ret.op = "run_search:delete" =>
        /\ IndexSet \subseteq SeqToSet(load_index(pre.main))
        /\ IndexSet # SeqToSet(load_index(pre.main))

\* the loop has deleted a dead directory and goes round again
C13_LoopRetries ==
    /\ ret.op = "run_search:delete"
    /\ ret.rebuilt
    /\ IndexSet # {}

\* C16: find_all and find_one leave the Ledger and the Index as they found
\* them, whether the directories they match exist or not; while run_search
\* runs, the trees change only in the delete of its loop.
C16_SearchesOnlyRead ==
    /\ ret.op \in {"find_all", "run_search:find_one", "run_search:return"} =>
           StoreUntouched
    /\ (LoopRunning /\ ~StoreUntouched) => ret.op = "run_search:delete"

\* find_one returned a path whose directory is gone, from three indexed paths
C16_Witness ==
    /\ ret.op = "run_search:find_one"
    /\ IsOk(ret.res)
    /\ ret.res.val # None
    /\ Unwrap(ret.res.val) \notin dirs
    /\ Cardinality(IndexSet) = 3
    /\ StoreUntouched

\* C17: add of a relative path that is not an existing directory fails with the
\* not-a-directory error, not with RelativePath.
C17_DirectoryTestComesFirst ==
    (ret.op = "add" /\ ~ret.is_dir /\ ret.path # <<>> /\ Head(ret.path) # "/") =>
        /\ IsErr(ret.res)
        /\ ret.res.val.kind = "PathDoesNotExist"
        /\ ret.res.val.kind # "RelativePath"

\* the relative path was added after its directory had been removed
C17_Witness ==
    /\ ret.op = "add"
    /\ ret.path = PathRelative
    /\ ~ret.is_dir
    /\ PathRelative \notin dirs
    /\ IsErr(ret.res)

\* the timestamp a list made now gives the path
ListedTimestamp(p) ==
    LET i == CHOOSE i \in 1..Len(list) : list[i].path = p
    IN  list[i].timestamp

\* C19: list returns one entry for each Ledger path and no other, each with
\* the time of the last successful add of its path, which no other entry's
\* timestamp exceeds right after that add; with nothing indexed it is empty.
C19_ListIsTheLedgerWithAddTimes ==
    /\ ret.op = "list" =>
           /\ IsOk(ret.res)
           /\ Len(ret.res.val) = Cardinality(LedgerKeys)
           /\ {ret.res.val[i].path : i \in 1..Len(ret.res.val)} = LedgerKeys
           /\ \A i \in 1..Len(ret.res.val) :
                  ret.res.val[i].timestamp
                      = paths[ret.res.val[i].path].secs_since_epoch
           /\ LedgerKeys = {} => ret.res.val = <<>>
    /\ (ret.op = "add" /\ IsOk(ret.res)) =>
           /\ ListedPaths = DOMAIN pre.paths \cup {CallKey}
           /\ ListedTimestamp(CallKey) = ret.time
           /\ \A p \in ListedPaths : ListedTimestamp(p) <= ret.time
    /\ ret.op \in {"add", "delete"} =>
           \A p \in ListedPaths :
               (p # CallKey \/ IsErr(ret.res)) =>
                   /\ p \in DOMAIN pre.paths
                   /\ ListedTimestamp(p) = deserialize(pre.paths[p])

\* list returned three entries, not all of one time
C19_Witness ==
    /\ ret.op = "list"
    /\ Len(ret.res.val) = 3
    /\ \E i, j \in 1..3 : ret.res.val[i].timestamp < ret.res.val[j].timestamp

\* an add at a later time moved its path's timestamp
C19_WitnessReAdd ==
    /\ ret.op = "add"
    /\ IsOk(ret.res)
    /\ CallKey \in DOMAIN pre.paths
    /\ deserialize(pre.paths[CallKey]) < ListedTimestamp(CallKey)
    /\ Cardinality(LedgerKeys) = 3

\* two path strings that stand for one directory
SameDirectory(p, q) == canonicalize(p) = canonicalize(q)

\* C18: add of an absolute path string of an existing directory succeeds and
\* puts that very string into the Ledger, next to any other string of the same
\* directory already there; a delete leaves every other key, another string
\* of the same directory included, in both trees.
C18_KeysAreThePathStrings ==
    /\ (ret.op = "add" /\ ret.is_dir /\ Head(ret.path) = "/") =>
           /\ IsOk(ret.res)
           /\ LedgerKeys = DOMAIN pre.paths \cup {CallKey}
           /\ \A q \in DOMAIN pre.paths \ {CallKey} : paths[q] = pre.paths[q]
    /\ ret.op = "delete" =>
           \A q \in DOMAIN pre.paths \ {CallKey} :
               /\ q \in LedgerKeys
               /\ paths[q] = pre.paths[q]
               /\ q \in IndexSet

\* a directory was indexed under two strings and one of them was deleted
C18_Witness ==
    /\ ret.op = "delete"
    /\ ret.path = PathParen
    /\ {PathParen, PathParenViaParent} \subseteq DOMAIN pre.paths
    /\ SameDirectory(PathParen, PathParenViaParent)
    /\ PathParen \notin LedgerKeys
    /\ PathParenViaParent \in LedgerKeys
    /\ PathParenViaParent \in IndexSet

\* the second string of a directory was added next to the first
C18_WitnessAdd ==
    /\ ret.op = "add"
    /\ ret.path = PathParenViaParent
    /\ IsOk(ret.res)
    /\ ret.rebuilt
    /\ PathParen \in DOMAIN pre.paths
    /\ {PathParen, PathParenViaParent} \subseteq IndexSet

\* C20: merge_fst_sets(A, B) succeeds for any two sets and holds exactly the
\* elements of A and of B, each once, in ascending byte order.
C20_MergeIsTheUnion ==
    ret.op = "merge_fst_sets" =>
        LET A == SeqToSet(ret.args[1])
            B == SeqToSet(ret.args[2])
        IN  /\ IsOk(ret.res)
            /\ SeqToSet(ret.res.val) = A \cup B
            /\ Len(ret.res.val) = Cardinality(A \cup B)
            /\ \A i, j \in 1..Len(ret.res.val) :
                   i < j => BytesLess(ret.res.val[i], ret.res.val[j])

\* two sets that overlap and interleave were merged
C20_Witness ==
    /\ ret.op = "merge_fst_sets"
    /\ ret.args = <<<< <<"A">>, <<"a", "b">> >>, << <<"a">>, <<"a", "b">>, <<"b">> >>>>
    /\ ret.res = Ok(<< <<"A">>, <<"a">>, <<"a", "b">>, <<"b">> >>)

\* add and delete without a failing store operation are add_steps and
\* delete_steps with fail_at = 0
StepsAgree ==
    \A p \in InputPaths :
        /\ LET a == add(p)
               b == add_steps(p, 0)
           IN  <<a.res, a.paths, a.main, a.rebuilt>> = <<b.res, b.paths, b.main, b.rebuilt>>
        /\ LET a == delete(p)
               b == delete_steps(p, 0)
           IN  <<a.res, a.paths, a.main, a.rebuilt>> = <<b.res, b.paths, b.main, b.rebuilt>>

\* the path was in one of the two trees only when the last call began
PreMismatch(p) == (p \in DOMAIN pre.paths) # (p \in SeqToSet(load_index(pre.main)))

\* the path is in one of the two trees only
Mismatch(p) == (p \in LedgerKeys) # (p \in IndexSet)

\* C14: the first successful add or delete of a path that an interrupted call
\* left in one tree only puts the two trees in agreement about that path.
C14_NextMutationRepairs ==
    (ret.op \in {"add", "delete"} /\ IsOk(ret.res) /\ PreMismatch(CallKey)) =>
        ~Mismatch(CallKey)

\* C14, amended: a path left in the Ledger only is repaired by its next
\* delete and not by an add; a path left in the Index only is repaired by
\* its next add and not by a delete.
C14_OppositeMutationRepairs ==
    (ret.op \in {"add", "delete"} /\ IsOk(ret.res) /\ PreMismatch(CallKey)) =>
        LET in_ledger == CallKey \in DOMAIN pre.paths
        IN  /\ (ret.op = "delete" /\ in_ledger) =>
                   ~Mismatch(CallKey) /\ CallKey \notin LedgerKeys
            /\ (ret.op = "add" /\ ~in_ledger) =>
                   ~Mismatch(CallKey) /\ CallKey \in LedgerKeys
            /\ (ret.op = "add" /\ in_ledger) =>
                   Mismatch(CallKey) /\ main = pre.main
            /\ (ret.op = "delete" /\ ~in_ledger) =>
                   Mismatch(CallKey) /\ StoreUntouched

\* a delete repaired what an interrupted add of the path had left, while the
\* other path stayed indexed
C14_Witness ==
    /\ ret.op = "delete"
    /\ IsOk(ret.res)
    /\ PreMismatch(CallKey)
    /\ CallKey \in DOMAIN pre.paths
    /\ ~Mismatch(CallKey)
    /\ IndexSet # {}

\* an add repaired what an interrupted delete of the path had left
C14_WitnessAdd ==
    /\ ret.op = "add"
    /\ IsOk(ret.res)
    /\ PreMismatch(CallKey)
    /\ CallKey \notin DOMAIN pre.paths
    /\ ~Mismatch(CallKey)

\* how often the last call attempted the store operation
Attempts(op) == Cardinality({i \in DOMAIN ret.ops : ret.ops[i] = op})

\* the call returned the error of the failed store operation, that operation
\* was the last it attempted, and it attempted it once
FailedFatally(fault) ==
    /\ ret.res = Err(fault.error)
    /\ ret.ops[Len(ret.ops)] = fault.op
    /\ Attempts(fault.op) = 1

\* the first config.open of Index::open failed with sled's Unsupported error
UnsupportedOpen ==
    /\ ret.op = "open"
    /\ ret.fault = Fault("config.open", "Unsupported")

\* C15: a call in which a store operation fails returns that operation's
\* error as it is, attempts no store operation after it and does not attempt
\* it again; Index::open is no exception.
C15_StoreFailureIsFatal ==
    ret.fault # None => FailedFatally(Unwrap(ret.fault))

\* C15, amended: as C15, except when the first config.open of Index::open
\* fails with Unsupported: then the database directory is removed and
\* config.open is attempted once more; a failure of the removal or of the
\* second open is returned as it is and nothing is attempted after it.
C15_FatalExceptUnsupportedOpen ==
    ret.fault # None =>
        IF UnsupportedOpen
        THEN /\ Len(ret.ops) >= 2
             /\ SubSeq(ret.ops, 1, 2) = <<"config.open", "remove_dir_all">>
             /\ ret.args[2] # "Ok" =>
                    /\ ret.res = Err(StoreError(ret.args[2]))
                    /\ ret.ops = <<"config.open", "remove_dir_all">>
                    /\ StoreUntouched
             /\ ret.args[2] = "Ok" =>
                    /\ Attempts("config.open") = 2
                    /\ ret.ops[3] = "config.open"
                    /\ paths = EmptyTree /\ main = None
                    /\ ret.args[3] # "Ok" =>
                           /\ ret.res = Err(StoreError(ret.args[3]))
                           /\ Len(ret.ops) = 3
                    /\ (\A i \in 3..5 : ret.args[i] = "Ok") => IsOk(ret.res)
        ELSE FailedFatally(Unwrap(ret.fault))

\* the write of the rebuilt set failed in an add: the error came back and the
\* Ledger keeps the new key
C15_Witness ==
    /\ ret.op = "add"
    /\ ret.fault = Fault("main.insert", "Io")
    /\ ret.res = Err(StoreError("Io"))
    /\ ret.ops = <<"paths.insert", "main.get", "main.insert">>
    /\ CallKey \in LedgerKeys
    /\ CallKey \notin IndexSet

\* Index::open found an unsupported database holding entries, removed it and
\* opened again
C15_WitnessOpen ==
    /\ UnsupportedOpen
    /\ IsOk(ret.res)
    /\ Attempts("config.open") = 2
    /\ pre.paths # EmptyTree
    /\ paths = EmptyTree

\* C21: remove_fst_set(A, B) succeeds for any two sets and holds exactly the
\* elements of A that are not in B, each once, in ascending byte order; so
\* removing the empty set or a disjoint set leaves A, and removing anything
\* from the empty set, or A from A, leaves the empty set.
C21_RemoveIsTheDifference ==
    ret.op = "remove_fst_set" =>
        LET A == SeqToSet(ret.args[1])
            B == SeqToSet(ret.args[2])
        IN  /\ IsOk(ret.res)
            /\ SeqToSet(ret.res.val) = A \ B
            /\ Len(ret.res.val) = Cardinality(A \ B)
            /\ \A i, j \in 1..Len(ret.res.val) :
                   i < j => BytesLess(ret.res.val[i], ret.res.val[j])
            /\ (B = {} \/ A \cap B = {}) => ret.res.val = ret.args[1]
            /\ (A = {} \/ A = B) => ret.res.val = <<>>

\* keys in the middle of a set were removed, with a key the set does not hold
C21_Witness ==
    /\ ret.op = "remove_fst_set"
    /\ ret.args = << << <<"A">>, <<"a">>, <<"a", "b">> >>, << <<"a">>, <<"b">> >> >>
    /\ ret.res = Ok(<< <<"A">>, <<"a", "b">> >>)

\* the value is the name in any letter case between runs of spaces
IsShellName(value, name) ==
    \E i \in 0..Len(value) :
        /\ i + Len(name) <= Len(value)
        /\ \A k \in 1..i : value[k] = " "
        /\ \A k \in (i + Len(name) + 1)..Len(value) : value[k] = " "
        /\ \A k \in 1..Len(name) :
               value[i + k] = name[k] \/ ToLower(value[i + k]) = name[k]

\* C22: Shell::try_from gives Zsh or Bash for the shell's name in any letter
\* case with white space around it, and for every other string it fails
\* with UnknownShellName carrying the string as it was given.
C22_ShellNameIsRecognised ==
    ret.op = "Shell::try_from" =>
        LET value == ret.args[1]
        IN  ret.res = IF IsShellName(value, <<"z", "s", "h">>) THEN Ok("Zsh")
                      ELSE IF IsShellName(value, <<"b", "a", "s", "h">>) THEN Ok("Bash")
                      ELSE Err([kind |-> "UnknownShellName", name |-> value])

\* the name in mixed case with a space after it was accepted
C22_Witness ==
    /\ ret.op = "Shell::try_from"
    /\ ret.args = << <<"Z", "s", "h", " ">> >>
    /\ ret.res = Ok("Zsh")

\* a string with a space inside and upper-case letters was rejected as given
C22_WitnessRejected ==
    /\ ret.op = "Shell::try_from"
    /\ ret.args = << <<"Z", " ", "S", "h">> >>
    /\ ret.res = Err([kind |-> "UnknownShellName", name |-> <<"Z", " ", "S", "h">>])

\* C23: find_one reads Ledger timestamps only for the candidates tied at the
\* maximum score: with one top-scoring candidate it reads none, otherwise it
\* reads one per tied candidate and none for a candidate that scores lower.
C23_TimestampsReadOnlyForTies ==
    (ret.op \in {"find_one", "get_best_score"} /\ IsOk(ret.res)) =>
        LET top == TopCandidates
        IN  IF Cardinality(top) <= 1 THEN ret.lookups = <<>>
            ELSE /\ SeqToSet(ret.lookups) = top
                 /\ Len(ret.lookups) = Cardinality(top)

\* two of three candidates tied at the top: two timestamps read, the third not
C23_Witness ==
    /\ ret.op = "find_one"
    /\ IsOk(ret.res)
    /\ Cardinality(TieCandidates) = 3
    /\ Cardinality(TopCandidates) = 2
    /\ Len(ret.lookups) = 2

\* three candidates and one of them alone at the top: no timestamp read
C23_WitnessSingleTop ==
    /\ ret.op = "find_one"
    /\ IsOk(ret.res)
    /\ Cardinality(TieCandidates) = 3
    /\ Cardinality(TopCandidates) = 1
    /\ ret.lookups = <<>>

\* the candidates that tie with the returned path on score and on timestamp
TiedWithWinner ==
    {c \in TopCandidates : LedgerRank(c) = LedgerRank(Unwrap(ret.res.val))}

\* the order the candidates of the last call were produced in
Produced ==
    IF ret.op = "get_best_score" THEN ret.args[1]
    ELSE find_all(ret.target, ret.exclude).val

PositionIn(v, c) == CHOOSE i \in 1..Len(v) : v[i] = c

\* the same names in the same order, however the separators are written
SameComponents(a, b) == components(a) = components(b)

\* one string per candidate of the last get_best_score call, in every order
Reorderings ==
    {v \in TieVectors : SeqToSet(v) = SeqToSet(ret.args[1])}

\* C24: among the candidates that tie on score and on timestamp the one with
\* the greatest path string is returned, in whatever order the candidates
\* were produced.
C24_GreatestPathStringWins ==
    (ret.op \in {"find_one", "get_best_score"} /\ IsOk(ret.res) /\ ret.res.val # None) =>
        /\ \A c \in TiedWithWinner :
               c = Unwrap(ret.res.val) \/ BytesLess(c, Unwrap(ret.res.val))
        /\ ret.op = "get_best_score" =>
               \A v \in Reorderings :
                   get_best_score(score_results(v, ret.target)).best
                       = Some([path |-> Unwrap(ret.res.val),
                               score |-> ScoreOf(Unwrap(ret.res.val), ret.target),
                               timestamp |->
                                   IF Len(ret.lookups) > 0
                                   THEN get_timestamp(Unwrap(ret.res.val))
                                   ELSE None])

\* C24, amended: among the candidates that tie on score and on timestamp the
\* one returned has the greatest path, compared component by component;
\* among candidates with the same components the one produced last wins, and
\* find_one produces its candidates in ascending key order.
C24_GreatestPathWins ==
    (ret.op \in {"find_one", "get_best_score"} /\ IsOk(ret.res) /\ ret.res.val # None) =>
        LET winner == Unwrap(ret.res.val)
        IN  /\ \A c \in TiedWithWinner \ {winner} :
                   IF SameComponents(c, winner)
                   THEN PositionIn(Produced, c) < PositionIn(Produced, winner)
                   ELSE components_less(components(c), components(winner))
            /\ ret.op = "find_one" => IsAscending(Produced)

\* find_one returned "/a.b" although "/a/b" tied with it and is the greater string
C24_Witness ==
    /\ ret.op = "find_one"
    /\ ret.res = Ok(Some(PathADotB))
    /\ PathASlashB \in TiedWithWinner
    /\ BytesLess(PathADotB, PathASlashB)

\* get_best_score returned "/a/b" because "/a/b/", its equal, was produced first
C24_WitnessOrder ==
    /\ ret.op = "get_best_score"
    /\ ret.args = << <<PathASlashBSlash, PathASlashB>> >>
    /\ ret.res = Ok(Some(PathASlashB))
    /\ PathASlashBSlash \in TiedWithWinner

\* the last call was an add or a delete that stopped after its Ledger
\* mutation: killed, or failed in update_paths_index
InterruptedCall(op) ==
    \/ ret.op = op \o ":interrupted"
    \/ /\ ret.op = op
       /\ ret.fault \in {Fault("main.get", "Io"), Fault("main.insert", "Io")}

\* the two trees agreed before the last call
PreAgreed == DOMAIN pre.paths = SeqToSet(load_index(pre.main))

\* every path but that of the last call is where it was and in both trees or
\* in neither
OthersAgree ==
    \A q \in (LedgerKeys \cup IndexSet \cup DOMAIN pre.paths) \ {CallKey} :
        /\ q \in LedgerKeys <=> q \in IndexSet
        /\ q \in LedgerKeys <=> q \in DOMAIN pre.paths

C25_WitnessDelete ==
    /\ ret.op = "delete:interrupted"
    /\ PreAgreed
    /\ CallKey \in IndexSet \ LedgerKeys
    /\ LedgerKeys # {}
    /\ OthersAgree

\* C26: Index::open removes the database directory and opens a second time
\* exactly when the first config.open fails with Unsupported; on any other
\* error of the first open it returns that error with both trees untouched,
\* and after a first open that succeeds it removes nothing.
C26_RecreatesOnlyWhenUnsupported ==
    (ret.op = "open" /\ ret.args # <<>>) =>
        /\ ret.ops[1] = "config.open"
        /\ Attempts("remove_dir_all") = (IF ret.args[1] = "Unsupported" THEN 1 ELSE 0)
        /\ Attempts("config.open") > 1 =>
               /\ ret.args[1] = "Unsupported"
               /\ ret.args[2] = "Ok"
               /\ SubSeq(ret.ops, 1, 3) = <<"config.open", "remove_dir_all", "config.open">>
        /\ ret.args[1] \notin {"Ok", "Unsupported"} =>
               /\ ret.res = Err(StoreError(ret.args[1]))
               /\ ret.ops = <<"config.open">>
               /\ StoreUntouched
        /\ ret.args[1] = "Ok" => StoreUntouched

\* the first open failed with an I/O error on a database holding entries: the
\* error came back and the entries are still there
C26_Witness ==
    /\ ret.op = "open"
    /\ ret.args # <<>>
    /\ ret.args[1] = "Io"
    /\ ret.res = Err(StoreError("Io"))
    /\ paths # EmptyTree
    /\ StoreUntouched

\* the first open found an unsupported database holding entries, which the
\* removal deleted before the second open
C26_WitnessRecreated ==
    /\ ret.op = "open"
    /\ ret.args # <<>>
    /\ ret.args[1] = "Unsupported"
    /\ ret.ops = <<"config.open", "remove_dir_all", "config.open",
                   "open_tree:main", "open_tree:paths">>
    /\ pre.paths # EmptyTree
    /\ paths = EmptyTree

\* the step is a successful delete of the path that the call before it, a
\* successful add, put into the Ledger
DeleteUndoesAdd ==
    /\ ret.op = "add"
    /\ IsOk(ret.res)
    /\ CallKey \notin DOMAIN pre.paths
    /\ ret'.op = "delete"
    /\ ret'.path = ret.path
    /\ IsOk(ret'.res)

\* the step leaves the Ledger's keys and the Index's elements as they were
\* before the call that preceded it
RestoresBoth ==
    /\ DOMAIN paths' = DOMAIN pre.paths
    /\ SeqToSet(load_index(main')) = SeqToSet(load_index(pre.main))

\* C27: a successful add of a path that is not in the Ledger, followed by a
\* successful delete of it, leaves the Ledger's key set and the Index's
\* element set as they were before the add.
C27_AddThenDeleteRestores == [][DeleteUndoesAdd => RestoresBoth]_vars

\* C27, amended: as C27, for a path that is in neither tree before the add.
C27_AddThenDeleteRestoresAbsent ==
    [][(DeleteUndoesAdd /\ CallKey \notin SeqToSet(load_index(pre.main)))
           => RestoresBoth]_vars

\* a delete took out the one path that an add had put in at this clock
\* reading, and the other path is in both trees as before
C27_Witness ==
    /\ ret.op = "delete"
    /\ IsOk(ret.res)
    /\ ret.rebuilt
    /\ CallKey \in DOMAIN pre.paths
    /\ deserialize(pre.paths[CallKey]) = now
    /\ CallKey \in SeqToSet(load_index(pre.main))
    /\ LedgerKeys = DOMAIN pre.paths \ {CallKey}
    /\ IndexSet = LedgerKeys
    /\ IndexSet # {}

\* C28: for every non-empty target, whatever characters it holds, find_all
\* and find_one return without an error and the substring matcher accepts
\* exactly the elements of the Index that hold the target as a contiguous
\* run, letter case aside.
C28_TargetIsLiteralText ==
    (ret.op \in {"find_all", "find_one"} /\ ret.target # <<>>) =>
        LET regex == regex_build(format_pattern(ret.target))
        IN  /\ IsOk(ret.res)
            /\ IsOk(regex)
            /\ \A p \in IndexSet :
                   regex_matches(regex.val, p) <=> ContainsCaseless(ret.target, p)

\* find_all("(") failed although "/(" is indexed and holds the target
C28_ParenthesisIsAnError ==
    /\ ret.op = "find_all"
    /\ ret.target = <<"(">>
    /\ PathParen \in IndexSet
    /\ IsErr(ret.res)

\* find_all(".") returned "/(", which holds no dot
C28_DotMatchesAnyCharacter ==
    /\ ret.op = "find_all"
    /\ ret.target = <<".">>
    /\ IsOk(ret.res)
    /\ PathParen \in SeqToSet(ret.res.val)
    /\ ~ContainsCaseless(<<".">>, PathParen)
    /\ ~subsequence_matches(<<".">>, PathParen)

\* the elements of the Index that hold the loop's target, as a subsequence or
\* as a contiguous run, that are not the excluded path and that are directories
LiveCandidates ==
    {p \in ExpectedCandidates(ret.target, ret.exclude) : is_dir(p)}

\* C29: the delete of the search loop takes out of both trees one path, which
\* was indexed and is not a directory, and no other; the loop raises
\* NoResults for a non-empty target only when no element of the Index that
\* matches the target, the excluded path aside, is a directory.
C29_LoopDeletesOnlyDeadPaths ==
    /\ ret.op = "run_search:delete" =>
           /\ ~is_dir(ret.path)
           /\ CallKey \in SeqToSet(load_index(pre.main))
           /\ IndexSet = SeqToSet(load_index(pre.main)) \ {CallKey}
           /\ LedgerKeys = DOMAIN pre.paths \ {CallKey}
           /\ \A q \in DOMAIN pre.paths : is_dir(q) => q \in LedgerKeys \cap IndexSet
    /\ (/\ ret.op = "run_search:return"
        /\ ret.target # <<>>
        /\ ret.res = Err([kind |-> "NoResults", path |-> ret.target])) =>
           LiveCandidates = {}

\* the loop deleted a path whose directory is gone and left the indexed path
\* of a directory that exists where it was
C29_Witness ==
    /\ ret.op = "run_search:delete"
    /\ ~is_dir(ret.path)
    /\ CallKey \notin IndexSet
    /\ \E q \in IndexSet : is_dir(q) /\ q \in DOMAIN pre.paths

\* the loop raised NoResults while the only directory left in the Index is
\* the excluded one
C29_WitnessNoResults ==
    /\ ret.op = "run_search:return"
    /\ ret.res = Err([kind |-> "NoResults", path |-> <<"a", "b">>])
    /\ ret.exclude = Some(PathAb)
    /\ IndexSet = {PathAb}
    /\ is_dir(PathAb)

\* both of the two concurrent adds have returned Ok
BothAddsReturned ==
    /\ ret.op = "add||add"
    /\ \A i \in Callers : ret.args[i].pc = "done" /\ ret.args[i].res = Some(Ok(<<>>))

\* C30: once two concurrent adds of two distinct paths that were in no tree
\* have both returned Ok, both paths are elements of the Index and the
\* elements of the Index are the keys of the Ledger.
C30_ConcurrentAddsBothIndexed ==
    BothAddsReturned =>
        /\ \A i \in Callers : to_string_lossy(ret.args[i].path) \in IndexSet
        /\ IndexSet = LedgerKeys

\* both adds returned Ok, both paths are in the Ledger, and the Index holds
\* only the path of the call that wrote last
C30_RebuildOverwritten ==
    /\ BothAddsReturned
    /\ \A i \in Callers : to_string_lossy(ret.args[i].path) \in LedgerKeys
    /\ \E i \in Callers : to_string_lossy(ret.args[i].path) \notin IndexSet

\* when one call reads `main` only after the other has written it, both
\* paths are indexed
C30_OneAfterTheOther ==
    /\ BothAddsReturned
    /\ \A i \in Callers : to_string_lossy(ret.args[i].path) \in IndexSet
    /\ IndexSet = LedgerKeys

====
